---- MODULE Spec2Model ----
(***************************************************************************)
(* GEDCOM to CSV converter (gedcom_to_csv_converter.py).                   *)
(*                                                                         *)
(* A Python str is a sequence of one-character strings, so that strip,     *)
(* rstrip, split and replace are computed character by character.  A dict  *)
(* is a function whose DOMAIN is its set of keys.  Dicts live in a heap    *)
(* and the lists individuals / families hold references (heap addresses),  *)
(* as Python lists do: a write through current_record is seen through      *)
(* every list that holds the same reference.                               *)
(***************************************************************************)
EXTENDS Integers, Sequences, FiniteSets, TLC

VARIABLES content, lines, i, current_record, current_type,
          heap, individuals, families, pc, output,
          calls, parses, previous

vars == <<content, lines, i, current_record, current_type,
          heap, individuals, families, pc, output,
          calls, parses, previous>>

\* calls: the calls of convert_gedcom_to_csv so far, the one under way
\* included; parses: the calls of parse() on the parser of this call;
\* previous: what the call before this one returned and left in its parser
session == <<calls, parses, previous>>

(***************************************************************************)
(* Python values                                                           *)
(***************************************************************************)
\* None, for current_record (a heap address otherwise; addresses start at 1)
NoRecord == 0

\* None, for current_type (a str otherwise); no str holds this character
NoType == <<"<None>">>

\* what an unguarded parts[k] past the end of the list raises
IndexError == <<"<IndexError>">>

\* the characters str.strip() and str.rstrip() remove
Whitespace == {" ", "\t", "\n", "\r"}

\* str literals of the source
Empty == <<>>
Lvl0  == <<"0">>
Lvl1  == <<"1">>
Lvl2  == <<"2">>
INDI  == <<"I", "N", "D", "I">>
FAM   == <<"F", "A", "M">>
NAME  == <<"N", "A", "M", "E">>
SEX   == <<"S", "E", "X">>
BIRT  == <<"B", "I", "R", "T">>
DEAT  == <<"D", "E", "A", "T">>
HUSB  == <<"H", "U", "S", "B">>
WIFE  == <<"W", "I", "F", "E">>
CHIL  == <<"C", "H", "I", "L">>
DATE  == <<"D", "A", "T", "E">>
PLAC  == <<"P", "L", "A", "C">>

(***************************************************************************)
(* str methods                                                             *)
(***************************************************************************)
RECURSIVE Lstrip(_)
Lstrip(s) ==
    IF s = <<>> THEN s
    ELSE IF Head(s) \in Whitespace THEN Lstrip(Tail(s)) ELSE s

RECURSIVE Rstrip(_)
Rstrip(s) ==
    IF s = <<>> THEN s
    ELSE IF s[Len(s)] \in Whitespace THEN Rstrip(SubSeq(s, 1, Len(s) - 1)) ELSE s

\* str.strip()
Strip(s) == Lstrip(Rstrip(s))

\* index of the first c in s, 0 when there is none
Find(s, c) ==
    IF \E k \in 1..Len(s) : s[k] = c
    THEN CHOOSE k \in 1..Len(s) : s[k] = c /\ \A j \in 1..(k - 1) : s[j] # c
    ELSE 0

\* str.split(sep, maxsplit) for a one-character sep
RECURSIVE Split(_, _, _)
Split(s, sep, maxsplit) ==
    LET k == Find(s, sep) IN
    IF maxsplit = 0 \/ k = 0 THEN <<s>>
    ELSE <<SubSeq(s, 1, k - 1)>> \o Split(SubSeq(s, k + 1, Len(s)), sep, maxsplit - 1)

\* str.split('\n'): no limit on the number of splits
SplitLines(s) == Split(s, "\n", Len(s))

\* str.strip(c) for a one-character c: every leading and trailing c goes
RECURSIVE StripChars(_, _)
StripChars(s, c) ==
    IF s = <<>> THEN s
    ELSE IF Head(s) = c THEN StripChars(Tail(s), c)
    ELSE IF s[Len(s)] = c THEN StripChars(SubSeq(s, 1, Len(s) - 1), c)
    ELSE s

\* str.replace(c, '') for a one-character c
RECURSIVE Replace(_, _)
Replace(s, c) ==
    IF s = <<>> THEN s
    ELSE IF Head(s) = c THEN Replace(Tail(s), c)
    ELSE <<Head(s)>> \o Replace(Tail(s), c)

(***************************************************************************)
(* dict methods                                                            *)
(***************************************************************************)
Get(d, k, default) == IF k \in DOMAIN d THEN d[k] ELSE default

Put(d, k, v) == [x \in (DOMAIN d) \cup {k} |-> IF x = k THEN v ELSE d[x]]

Pop(d, k) == [x \in (DOMAIN d) \ {k} |-> d[x]]

\* truth value of current_record: None and the empty dict are false
RecordTruthy(h, r) == r # NoRecord /\ DOMAIN h[r] # {}

\* truth value of current_type: None and '' are false
TypeTruthy(t) == t # NoType /\ t # Empty

(***************************************************************************)
(* GedcomParser.parse: the body of the loop over the lines.  The parser's  *)
(* state st is the record of self.individuals, self.families, the two      *)
(* locals current_record and current_type, the heap of dicts, and whether  *)
(* an exception was raised.                                                *)
(***************************************************************************)
\* parts = line.split(' ', 2)
PartsOf(line) == Split(line, " ", 2)

\* level = parts[0]
LevelOf(parts) == parts[1]

\* parts[k - 1] of the source (lists are 0-based there); past the end it raises
Item(parts, k) == IF k <= Len(parts) THEN parts[k] ELSE IndexError

\* len(parts) >= 3, the guard of record_id = parts[1]; record_type = parts[2]
HasIdAndType(parts) == Len(parts) >= 3

\* (mutant) tag = parts[1], unguarded
TagUnguarded(parts) == Item(parts, 2)

\* tag = parts[1] if len(parts) > 1 else ''
TagOf(parts) == IF Len(parts) > 1 THEN Item(parts, 2) ELSE Empty

\* value = parts[2] if len(parts) > 2 else ''
ValueOf(parts) == IF Len(parts) > 2 THEN Item(parts, 3) ELSE Empty

\* (mutant) the type of a level-0 line is not looked at
RecognisedAny(record_type) == TRUE

\* record_type in ['INDI', 'FAM']
Recognised(record_type) == record_type \in {INDI, FAM}

\* (mutant) the id is the second field as it stands
PointerIdRaw(record_id) == record_id

\* record_id.strip('@')
PointerId(record_id) == StripChars(record_id, "@")

\* {'ID': record_id.strip('@'), 'type': record_type}
NewRecord(record_id, record_type) ==
    [k \in {"ID", "type"} |-> IF k = "ID" THEN PointerId(record_id) ELSE record_type]

\* (mutant) the previous record is saved whatever its type
SavePreviousAnyType(list, tag, st) ==
    IF RecordTruthy(st.heap, st.current_record) /\ TypeTruthy(st.current_type)
    THEN Append(list, st.current_record)
    ELSE list

\* (mutant) a record whose ID a record of the list already has is not saved
SavePreviousUnique(list, tag, st) ==
    IF /\ RecordTruthy(st.heap, st.current_record)
       /\ TypeTruthy(st.current_type)
       /\ st.current_type = tag
       /\ \A k \in 1..Len(list) :
             st.heap[list[k]]["ID"] # st.heap[st.current_record]["ID"]
    THEN Append(list, st.current_record)
    ELSE list

\* "Save previous record": the list `list` of the records of type `tag`
SavePrevious(list, tag, st) ==
    IF /\ RecordTruthy(st.heap, st.current_record)
       /\ TypeTruthy(st.current_type)
       /\ st.current_type = tag
    THEN Append(list, st.current_record)
    ELSE list

\* (mutant) the record open at the end of the input is forgotten
SaveLastNothing(list, tag, st) == list

\* "Save last record", after the loop
SaveLastRecord(list, tag, st) ==
    IF /\ RecordTruthy(st.heap, st.current_record)
       /\ TypeTruthy(st.current_type)
       /\ st.current_type = tag
    THEN Append(list, st.current_record)
    ELSE list

\* (mutant) current_record is left as it was
RecordKept(current) == current

\* current_record = None, on a level-0 line that names no INDI or FAM record
RecordAfterUnknown(current) == NoRecord

\* (mutant) value.strip('/'): only the slashes at the two ends go
CleanNameEnds(value) == StripChars(value, "/")

\* value.replace('/', '')
CleanName(value) == Replace(value, "/")

\* (mutant) one pending event: BIRT and DEAT each take the place of the other
Level1Overwrite(rec, tag, value) ==
    CASE tag = NAME -> Put(rec, "Name", CleanName(value))
      [] tag = SEX  -> Put(rec, "Sex", value)
      [] tag = BIRT -> Put(Pop(rec, "_DEAT_NEXT"), "_BIRT_NEXT", TRUE)
      [] tag = DEAT -> Put(Pop(rec, "_BIRT_NEXT"), "_DEAT_NEXT", TRUE)
      [] tag = HUSB -> Put(rec, "Husband", StripChars(value, "@"))
      [] tag = WIFE -> Put(rec, "Wife", StripChars(value, "@"))
      [] tag = CHIL -> Put(rec, "Children",
                           Append(Get(rec, "Children", <<>>), StripChars(value, "@")))
      [] OTHER      -> rec

\* (mutant) a level-1 tag other than BIRT and DEAT ends the pending event
Level1Clearing(rec, tag, value) ==
    LET cleared == Pop(Pop(rec, "_BIRT_NEXT"), "_DEAT_NEXT") IN
    CASE tag = NAME -> Put(cleared, "Name", CleanName(value))
      [] tag = SEX  -> Put(cleared, "Sex", value)
      [] tag = BIRT -> Put(rec, "_BIRT_NEXT", TRUE)
      [] tag = DEAT -> Put(rec, "_DEAT_NEXT", TRUE)
      [] tag = HUSB -> Put(cleared, "Husband", StripChars(value, "@"))
      [] tag = WIFE -> Put(cleared, "Wife", StripChars(value, "@"))
      [] tag = CHIL -> Put(cleared, "Children",
                           Append(Get(rec, "Children", <<>>), StripChars(value, "@")))
      [] OTHER      -> cleared

\* the level-1 tags, applied to the dict rec
Level1(rec, tag, value) ==
    CASE tag = NAME -> Put(rec, "Name", CleanName(value))
      [] tag = SEX  -> Put(rec, "Sex", value)
      [] tag = BIRT -> Put(rec, "_BIRT_NEXT", TRUE)
      [] tag = DEAT -> Put(rec, "_DEAT_NEXT", TRUE)
      [] tag = HUSB -> Put(rec, "Husband", StripChars(value, "@"))
      [] tag = WIFE -> Put(rec, "Wife", StripChars(value, "@"))
      [] tag = CHIL -> Put(rec, "Children",
                           Append(Get(rec, "Children", <<>>), StripChars(value, "@")))
      [] OTHER      -> rec

\* the level-2 tags, applied to the dict rec
Level2(rec, tag, value) ==
    CASE tag = DATE ->
            IF Get(rec, "_BIRT_NEXT", FALSE)
            THEN Pop(Put(rec, "Birth Date", value), "_BIRT_NEXT")
            ELSE IF Get(rec, "_DEAT_NEXT", FALSE)
            THEN Pop(Put(rec, "Death Date", value), "_DEAT_NEXT")
            ELSE rec
      [] tag = PLAC ->
            IF Get(rec, "_BIRT_NEXT", FALSE)
            THEN Put(rec, "Birth Place", value)
            ELSE IF Get(rec, "_DEAT_NEXT", FALSE)
            THEN Put(rec, "Death Place", value)
            ELSE rec
      [] OTHER -> rec

\* if level == '0': save the previous record, start a new one
OnLevel0(st, parts) ==
    LET record_id   == Item(parts, 2)
        record_type == Item(parts, 3)
        saved == [st EXCEPT !.individuals = SavePrevious(@, INDI, st),
                            !.families = SavePrevious(@, FAM, st)]
        closed == [saved EXCEPT !.current_record = RecordAfterUnknown(@),
                                !.current_type = NoType]
    IN  IF HasIdAndType(parts)
        THEN IF record_id = IndexError \/ record_type = IndexError
             THEN [saved EXCEPT !.raised = TRUE]
             ELSE IF Recognised(record_type)
             THEN [saved EXCEPT !.heap = Append(@, NewRecord(record_id, record_type)),
                                !.current_record = Len(st.heap) + 1,
                                !.current_type = record_type]
             ELSE closed
        ELSE closed

\* elif level == '1' and current_record
OnLevel1(st, parts) ==
    LET tag   == TagOf(parts)
        value == ValueOf(parts)
    IN  IF tag = IndexError \/ value = IndexError
        THEN [st EXCEPT !.raised = TRUE]
        ELSE [st EXCEPT !.heap[st.current_record] = Level1(@, tag, value)]

\* elif level == '2' and current_record
OnLevel2(st, parts) ==
    LET tag   == TagOf(parts)
        value == ValueOf(parts)
    IN  IF tag = IndexError \/ value = IndexError
        THEN [st EXCEPT !.raised = TRUE]
        ELSE [st EXCEPT !.heap[st.current_record] = Level2(@, tag, value)]

\* (mutant) the last branch is an else: every level but 0 and 1 is taken as 2
BranchLoose(st, raw) ==
    LET line  == Rstrip(raw)
        level == LevelOf(PartsOf(line))
    IN  IF line = Empty THEN "blank"
        ELSE IF level = Lvl0 THEN "0"
        ELSE IF level = Lvl1 /\ RecordTruthy(st.heap, st.current_record) THEN "1"
        ELSE IF RecordTruthy(st.heap, st.current_record) THEN "2"
        ELSE "none"

\* the branch of the loop body that the line `raw` takes in state st
Branch(st, raw) ==
    LET line  == Rstrip(raw)
        level == LevelOf(PartsOf(line))
    IN  IF line = Empty THEN "blank"
        ELSE IF level = Lvl0 THEN "0"
        ELSE IF level = Lvl1 /\ RecordTruthy(st.heap, st.current_record) THEN "1"
        ELSE IF level = Lvl2 /\ RecordTruthy(st.heap, st.current_record) THEN "2"
        ELSE "none"

\* one iteration of the loop
LineStep(st, raw) ==
    LET parts == PartsOf(Rstrip(raw))
        br    == Branch(st, raw)
    IN  CASE br = "0" -> OnLevel0(st, parts)
          [] br = "1" -> OnLevel1(st, parts)
          [] br = "2" -> OnLevel2(st, parts)
          [] OTHER    -> st

\* the code after the loop
Finish(st) ==
    [st EXCEPT !.individuals = SaveLastRecord(@, INDI, st),
               !.families = SaveLastRecord(@, FAM, st)]

\* the state parse() starts the loop in, for a fresh GedcomParser
FreshState ==
    [heap |-> <<>>, individuals |-> <<>>, families |-> <<>>,
     current_record |-> NoRecord, current_type |-> NoType, raised |-> FALSE]

\* the loop over the lines ls, from state st; an exception ends it
RECURSIVE RunLines(_, _)
RunLines(st, ls) ==
    IF ls = <<>> \/ st.raised THEN st
    ELSE RunLines(LineStep(st, Head(ls)), Tail(ls))

\* parse() on a fresh parser whose content splits into the lines ls
ParseLines(ls) ==
    LET st == RunLines(FreshState, ls) IN IF st.raised THEN st ELSE Finish(st)

(***************************************************************************)
(* GedcomParser.to_csv                                                     *)
(***************************************************************************)
\* fieldnames of the DictWriter
FieldNames == <<"ID", "Name", "Sex", "Birth Date", "Birth Place",
                "Death Date", "Death Place">>

\* the characters of a field name
Chars(k) ==
    CASE k = "ID"          -> <<"I", "D">>
      [] k = "Name"        -> <<"N", "a", "m", "e">>
      [] k = "Sex"         -> <<"S", "e", "x">>
      [] k = "Birth Date"  -> <<"B", "i", "r", "t", "h", " ", "D", "a", "t", "e">>
      [] k = "Birth Place" -> <<"B", "i", "r", "t", "h", " ", "P", "l", "a", "c", "e">>
      [] k = "Death Date"  -> <<"D", "e", "a", "t", "h", " ", "D", "a", "t", "e">>
      [] k = "Death Place" -> <<"D", "e", "a", "t", "h", " ", "P", "l", "a", "c", "e">>

\* the characters that make csv.writer quote a field (QUOTE_MINIMAL, excel dialect)
NeedsQuote == {",", "\"", "\r", "\n"}

RECURSIVE DoubleQuotes(_)
DoubleQuotes(s) ==
    IF s = <<>> THEN s
    ELSE (IF Head(s) = "\"" THEN <<"\"", "\"">> ELSE <<Head(s)>>) \o DoubleQuotes(Tail(s))

\* one field as csv.writer writes it
WriteField(s) ==
    IF \E k \in 1..Len(s) : s[k] \in NeedsQuote
    THEN <<"\"">> \o DoubleQuotes(s) \o <<"\"">>
    ELSE s

\* one row as csv.writer writes it, without its line terminator '\r\n'
RECURSIVE WriteRow(_)
WriteRow(fields) ==
    IF Len(fields) = 0 THEN <<>>
    ELSE IF Len(fields) = 1 THEN WriteField(fields[1])
    ELSE WriteField(fields[1]) \o <<",">> \o WriteRow(Tail(fields))

\* (mutant) only the attributes that are set, no '' for the others
CleanRecordSetOnly(individual) ==
    LET set == SelectSeq(FieldNames, LAMBDA k : k \in DOMAIN individual)
    IN  [c \in 1..Len(set) |-> individual[set[c]]]

\* clean_record, in the order of fieldnames
CleanRecord(individual) ==
    [c \in 1..Len(FieldNames) |-> Get(individual, FieldNames[c], Empty)]

\* writer.writeheader()
HeaderRow == WriteRow([c \in 1..Len(FieldNames) |-> Chars(FieldNames[c])])

\* the rows of to_csv's return value, each ended by '\r\n' in the str
CsvRows(h, inds) ==
    IF inds # <<>>
    THEN <<HeaderRow>> \o [k \in 1..Len(inds) |-> WriteRow(CleanRecord(h[inds[k]]))]
    ELSE <<>>

(***************************************************************************)
(* The actions                                                             *)
(***************************************************************************)
\* the parser's state, as the record the loop body works on
State ==
    [heap |-> heap, individuals |-> individuals, families |-> families,
     current_record |-> current_record, current_type |-> current_type,
     raised |-> pc = "error"]

\* the loop body took the parser to state n: an exception leaves the loop
Becomes(n) ==
    /\ heap' = n.heap
    /\ individuals' = n.individuals
    /\ families' = n.families
    /\ current_record' = n.current_record
    /\ current_type' = n.current_type
    /\ pc' = IF n.raised THEN "error" ELSE pc
    /\ i' = IF n.raised THEN i ELSE i + 1
    /\ UNCHANGED <<content, lines, output, session>>

\* (mutant) parse() starts from empty lists
ClearedByParse(list) == <<>>

\* what parse() finds in self.individuals and self.families when it starts:
\* it assigns neither, so what an earlier parse() appended is still there
KeptByParse(list) == list

\* lines = self.content.strip().split('\n'); current_record = current_type = None
ParseBegin ==
    /\ pc = "start"
    /\ lines' = SplitLines(Strip(content))
    /\ i' = 1
    /\ current_record' = NoRecord
    /\ current_type' = NoType
    /\ individuals' = KeptByParse(individuals)
    /\ families' = KeptByParse(families)
    /\ parses' = parses + 1
    /\ pc' = "loop"
    /\ UNCHANGED <<content, heap, output, calls, previous>>

\* the loop is at a line
AtLine == pc = "loop" /\ i <= Len(lines)

\* if level == '0'
Level0Line ==
    /\ AtLine
    /\ Branch(State, lines[i]) = "0"
    /\ Becomes(OnLevel0(State, PartsOf(Rstrip(lines[i]))))

\* elif level == '1' and current_record
Level1Line ==
    /\ AtLine
    /\ Branch(State, lines[i]) = "1"
    /\ Becomes(OnLevel1(State, PartsOf(Rstrip(lines[i]))))

\* elif level == '2' and current_record
Level2Line ==
    /\ AtLine
    /\ Branch(State, lines[i]) = "2"
    /\ Becomes(OnLevel2(State, PartsOf(Rstrip(lines[i]))))

\* a blank line (continue), and a line no branch of the if takes
SkipLine ==
    /\ AtLine
    /\ Branch(State, lines[i]) \in {"blank", "none"}
    /\ Becomes(State)

\* "Save last record" and return self
SaveLast ==
    /\ pc = "loop"
    /\ i > Len(lines)
    /\ individuals' = Finish(State).individuals
    /\ families' = Finish(State).families
    /\ pc' = "parsed"
    /\ UNCHANGED <<content, lines, i, current_record, current_type, heap, output,
                   session>>

\* parser.to_csv(), as convert_gedcom_to_csv calls it after parser.parse()
ToCsv ==
    /\ pc = "parsed"
    /\ output' = CsvRows(heap, individuals)
    /\ pc' = "done"
    /\ UNCHANGED <<content, lines, i, current_record, current_type,
                   heap, individuals, families, session>>

Next ==
    \/ ParseBegin
    \/ Level0Line
    \/ Level1Line
    \/ Level2Line
    \/ SkipLine
    \/ SaveLast
    \/ ToCsv

\* (mutant) one list shared by every parser (a class attribute, a mutable
\* default): the new parser sees what the parser before it appended
SharedList(old) == old

\* self.individuals = [] and self.families = []: each parser has new lists
NewList(old) == <<>>

\* the most calls of convert_gedcom_to_csv in one run of the program
MaxCalls == 2

\* convert_gedcom_to_csv(gedcom_content) once more, on the same text, after
\* the call before it returned: a new GedcomParser, new locals; the dicts of
\* the call before stay where they are in memory
ConvertAgain ==
    /\ pc = "done"
    /\ calls < MaxCalls
    /\ previous' = [output |-> output, individuals |-> individuals,
                    families |-> families]
    /\ individuals' = NewList(individuals)
    /\ families' = NewList(families)
    /\ calls' = calls + 1
    /\ parses' = 0
    /\ lines' = <<>>
    /\ i' = 1
    /\ current_record' = NoRecord
    /\ current_type' = NoType
    /\ output' = <<>>
    /\ pc' = "start"
    /\ UNCHANGED <<content, heap>>

\* the most calls of parse() on one parser
MaxParses == 3

\* parser.parse() once more on the parser that parse() has returned: the
\* parser is as the call before left it
ParseAgain ==
    /\ pc = "parsed"
    /\ parses < MaxParses
    /\ pc' = "start"
    /\ UNCHANGED <<content, lines, i, current_record, current_type, heap,
                   individuals, families, output, session>>

\* a caller that calls parse() several times before to_csv()
NextReparse ==
    \/ Next
    \/ ParseAgain

\* the program that converts the same text several times
NextTwice ==
    \/ Next
    \/ ConvertAgain

(***************************************************************************)
(* Input texts                                                             *)
(***************************************************************************)
\* the sequences over S of length at most n
SeqsUpTo(S, n) == UNION {[1..k -> S] : k \in 0..n}

\* '\n'.join(t): the text whose lines are t
RECURSIVE JoinLines(_)
JoinLines(t) ==
    IF Len(t) = 0 THEN <<>>
    ELSE IF Len(t) = 1 THEN t[1]
    ELSE t[1] \o <<"\n">> \o JoinLines(Tail(t))

\* a line of three fields, of two fields
Line3(a, b, c) == a \o <<" ">> \o b \o <<" ">> \o c
Line2(a, b) == a \o <<" ">> \o b

PtrI1 == <<"@", "I", "1", "@">>
PtrI2 == <<"@", "I", "2", "@">>
PtrF1 == <<"@", "F", "1", "@">>
PtrS1 == <<"@", "S", "1", "@">>
HEAD  == <<"H", "E", "A", "D">>
SUBM  == <<"S", "U", "B", "M">>
JaneDoe == <<"J", "a", "n", "e", " ", "/", "D", "o", "e", "/">>
Y1900 == <<"1", "9", "0", "0">>

\* the lines of the texts of Spec: declarations (one ended by a carriage
\* return, as in a file with CRLF line ends), two level-0 lines of unknown
\* type, three lines that fill a record, and a line of white space
CoreLines ==
    { Line3(Lvl0, PtrI1, INDI), Line3(Lvl0, PtrI2, INDI) \o <<"\r">>,
      Line3(Lvl0, PtrF1, FAM), Line2(Lvl0, HEAD), Line3(Lvl0, PtrS1, SUBM),
      Line3(Lvl1, NAME, JaneDoe), Line2(Lvl1, BIRT), Line3(Lvl2, DATE, Y1900),
      <<" ">> }

\* the longest text of Spec, in lines
MaxLines == 4

CoreTexts == {JoinLines(t) : t \in SeqsUpTo(CoreLines, MaxLines)}

\* GedcomParser(gedcom_content): the state after construction
InitParser(texts) ==
    /\ content \in texts
    /\ lines = <<>>
    /\ i = 1
    /\ current_record = NoRecord
    /\ current_type = NoType
    /\ heap = <<>>
    /\ individuals = <<>>
    /\ families = <<>>
    /\ pc = "start"
    /\ output = <<>>
    /\ calls = 1
    /\ parses = 0
    /\ previous = [output |-> <<>>, individuals |-> <<>>, families |-> <<>>]

Init == InitParser(CoreTexts)

Spec == Init /\ [][Next]_vars

\* The texts of SpecEvents: one INDI record of the shape of the birth/death
\* example (NAME, BIRT, DATE, PLAC, DEAT, DATE, PLAC), with every choice of
\* the two dates and the two places, after an optional HEAD block and before
\* an optional TRLR line.
Jan1900 == <<"1", " ", "J", "A", "N", " ", "1", "9", "0", "0">>
Feb1980 == <<"2", " ", "F", "E", "B", " ", "1", "9", "8", "0">>
Springfield == <<"S", "p", "r", "i", "n", "g", "f", "i", "e", "l", "d">>
CapitalCity == <<"C", "a", "p", "i", "t", "a", "l", " ", "C", "i", "t", "y">>
SOUR == <<"S", "O", "U", "R">>
TRLR == <<"T", "R", "L", "R">>

EventDates == {Jan1900, Feb1980}
EventPlaces == {Springfield, CapitalCity}

EventRecord(d1, p1, d2, p2) ==
    << Line3(Lvl0, PtrI1, INDI), Line3(Lvl1, NAME, JaneDoe),
       Line2(Lvl1, BIRT), Line3(Lvl2, DATE, d1), Line3(Lvl2, PLAC, p1),
       Line2(Lvl1, DEAT), Line3(Lvl2, DATE, d2), Line3(Lvl2, PLAC, p2) >>

EventTexts ==
    { JoinLines(before \o EventRecord(d1, p1, d2, p2) \o after) :
        before \in {<<>>, <<Line2(Lvl0, HEAD), Line3(Lvl1, SOUR, <<"X">>)>>},
        after \in {<<>>, <<Line2(Lvl0, TRLR)>>},
        d1 \in EventDates, p1 \in EventPlaces,
        d2 \in EventDates, p2 \in EventPlaces }

InitEvents == InitParser(EventTexts)

\* The texts of SpecFields: one declaration (a pointer, a pointer with a
\* doubled @, an id with a comma and no @, a family) and then up to
\* MaxFieldLines lines that set fields: names with slashes, a comma and a
\* double quote, a NAME line with no value, SEX, BIRT, DATE, PLAC, and a
\* level-3 line.
PtrI123 == <<"@", "I", "1", "2", "3", "@">>
PtrAtI1 == <<"@", "@", "I", "1", "@">>
IdComma == <<"I", ",", "1">>
JohnSmith == <<"J", "o", "h", "n", " ", "/", "S", "m", "i", "t", "h", "/">>
QuotedName == <<"/", "A", "/", ",", "\"", "B", "\"">>

FieldDecls ==
    { Line3(Lvl0, PtrI123, INDI), Line3(Lvl0, PtrAtI1, INDI),
      Line3(Lvl0, IdComma, INDI), Line3(Lvl0, PtrF1, FAM) }

FieldLines ==
    { Line3(Lvl1, NAME, JohnSmith), Line3(Lvl1, NAME, QuotedName), Line2(Lvl1, NAME),
      Line3(Lvl1, SEX, <<"M">>), Line2(Lvl1, BIRT),
      Line3(Lvl2, DATE, Jan1900), Line3(Lvl2, PLAC, Springfield),
      Line2(<<"3">>, <<"X">>) }

\* the most field lines after the declaration
MaxFieldLines == 3

FieldTexts ==
    { JoinLines(<<d>> \o t) : d \in FieldDecls, t \in SeqsUpTo(FieldLines, MaxFieldLines) }

InitFields == InitParser(FieldTexts)

SpecFields == InitFields /\ [][Next]_vars

\* The texts of SpecMalformed: lines with only a level field, lines with no
\* tag or no value, a level-0 line with no type, a line whose first field is
\* no level, beside one declaration and BIRT so that records are open and
\* dates are awaited.
MalformedLines ==
    { Line3(Lvl0, PtrI1, INDI), Lvl0, Line2(Lvl0, PtrI1),
      Lvl1, Line2(Lvl1, NAME), Line2(Lvl1, BIRT),
      Lvl2, Line2(Lvl2, DATE), Line2(Lvl2, PLAC),
      Line2(<<"x">>, <<"y">>) }

\* the longest text of SpecMalformed, in lines
MaxMalformedLines == 4

MalformedTexts == {JoinLines(t) : t \in SeqsUpTo(MalformedLines, MaxMalformedLines)}

InitMalformed == InitParser(MalformedTexts)

SpecMalformed == InitMalformed /\ [][Next]_vars

SpecEvents == InitEvents /\ [][Next]_vars

\* the longest text of SpecTwice, in lines
MaxTwiceLines == 3

TwiceTexts == {JoinLines(t) : t \in SeqsUpTo(CoreLines, MaxTwiceLines)}

InitTwice == InitParser(TwiceTexts)

\* the texts of at most MaxTwiceLines core lines, each converted MaxCalls times
SpecTwice == InitTwice /\ [][NextTwice]_vars

\* the longest text of SpecReparse, in lines
MaxReparseLines == 3

ReparseTexts == {JoinLines(t) : t \in SeqsUpTo(CoreLines, MaxReparseLines)}

InitReparse == InitParser(ReparseTexts)

\* the texts of at most MaxReparseLines core lines, each parsed up to
\* MaxParses times by one parser before to_csv()
SpecReparse == InitReparse /\ [][NextReparse]_vars

\* The texts of SpecPending: one INDI record whose body is any sequence of
\* at most MaxPendingLines event lines (BIRT, DEAT, two dates, two places),
\* after an optional level-1 line that no record is open for and before an
\* optional TRLR line.
PendingLines ==
    { Line2(Lvl1, BIRT), Line2(Lvl1, DEAT),
      Line3(Lvl2, DATE, Jan1900), Line3(Lvl2, DATE, Feb1980),
      Line3(Lvl2, PLAC, Springfield), Line3(Lvl2, PLAC, CapitalCity) }

\* the longest record body of SpecPending, in lines
MaxPendingLines == 4

PendingTexts ==
    { JoinLines(before \o <<Line3(Lvl0, PtrI1, INDI)>> \o body \o after) :
        before \in {<<>>, <<Line2(Lvl1, BIRT)>>},
        body \in SeqsUpTo(PendingLines, MaxPendingLines),
        after \in {<<>>, <<Line2(Lvl0, TRLR)>>} }

InitPending == InitParser(PendingTexts)

SpecPending == InitPending /\ [][Next]_vars

\* The texts of SpecIgnored: one INDI record whose body is any sequence of
\* at most MaxIgnoredLines lines among BIRT, DEAT, a level-2 DATE, NAME, and
\* lines the parser has no branch for (a level-1 and a level-2 line of
\* unknown tag, a DATE at level 3 and a PLAC at level 10), before an
\* optional TRLR line.
Lvl3  == <<"3">>
Lvl10 == <<"1", "0">>
BURI  == <<"B", "U", "R", "I">>
ADDR  == <<"A", "D", "D", "R">>

IgnoredLines ==
    { Line2(Lvl1, BIRT), Line2(Lvl1, DEAT), Line3(Lvl2, DATE, Jan1900),
      Line3(Lvl1, NAME, JaneDoe), Line2(Lvl1, BURI),
      Line3(Lvl2, ADDR, Springfield), Line3(Lvl3, DATE, Feb1980),
      Line3(Lvl10, PLAC, CapitalCity) }

\* the longest record body of SpecIgnored, in lines
MaxIgnoredLines == 4

IgnoredTexts ==
    { JoinLines(<<Line3(Lvl0, PtrI1, INDI)>> \o body \o after) :
        body \in SeqsUpTo(IgnoredLines, MaxIgnoredLines),
        after \in {<<>>, <<Line2(Lvl0, TRLR)>>} }

InitIgnored == InitParser(IgnoredTexts)

SpecIgnored == InitIgnored /\ [][Next]_vars

(***************************************************************************)
(* Vocabulary of the properties                                            *)
(***************************************************************************)
\* the fields of a line of the text
Fields(raw) == PartsOf(Rstrip(raw))

\* a level-0 line
IsLevel0(raw) == Rstrip(raw) # Empty /\ LevelOf(Fields(raw)) = Lvl0

\* a level-0 line whose third field is `type`
Declares(raw, type) ==
    IsLevel0(raw) /\ Len(Fields(raw)) >= 3 /\ Fields(raw)[3] = type

\* a level-0 line whose type is not INDI or FAM, or is absent
IsUnknownTop(raw) ==
    IsLevel0(raw) /\ ~Declares(raw, INDI) /\ ~Declares(raw, FAM)

\* parse() has returned
Parsed == pc \in {"parsed", "done"}

\* the INDI declarations of the text, in order
IndiDecls == SelectSeq(lines, LAMBDA l : Declares(l, INDI))

\* the number of INDI and FAM declarations among the first n lines
DeclsBefore(n) ==
    Cardinality({j \in 1..n : Declares(lines[j], INDI) \/ Declares(lines[j], FAM)})

\* how often the list holds the reference a
Occurrences(list, a) == Cardinality({k \in 1..Len(list) : list[k] = a})

\* the dicts a list of references stands for
Records(h, list) == [k \in 1..Len(list) |-> h[list[k]]]

\* the data rows of the CSV: the rows after the header row
DataRows == IF output = <<>> THEN <<>> ELSE Tail(output)

\* the loop is inside the block of a level-0 line of unknown type
InUnknownBlock ==
    /\ AtLine
    /\ \E j \in 1..(i - 1) :
          /\ IsUnknownTop(lines[j])
          /\ \A m \in (j + 1)..(i - 1) : ~IsLevel0(lines[m])

\* the lines ls without the block that the level-0 line j opens
WithoutBlock(ls, j) ==
    LET after == {m \in (j + 1)..Len(ls) : IsLevel0(ls[m])}
        next  == IF after = {} THEN Len(ls) + 1
                 ELSE CHOOSE m \in after : \A n \in after : m <= n
    IN  SubSeq(ls, 1, j - 1) \o SubSeq(ls, next, Len(ls))

(***************************************************************************)
(* Properties                                                              *)
(***************************************************************************)

\* text with a comma between the fields: a CSV row none of whose fields
\* needs quoting
RECURSIVE Commas(_)
Commas(fields) ==
    IF Len(fields) = 0 THEN <<>>
    ELSE IF Len(fields) = 1 THEN fields[1]
    ELSE fields[1] \o <<",">> \o Commas(Tail(fields))

\* the header row ID,Name,Sex,Birth Date,Birth Place,Death Date,Death Place
HeaderText ==
    Commas(<<Chars("ID"), Chars("Name"), Chars("Sex"), Chars("Birth Date"),
             Chars("Birth Place"), Chars("Death Date"), Chars("Death Place")>>)

\* lines b .. b+7 of the text are an INDI record of the shape of the
\* birth/death example, and the record ends there
IsEventRecord(b) ==
    /\ b + 7 <= Len(lines)
    /\ Declares(lines[b], INDI)
    /\ Fields(lines[b + 1]) = <<Lvl1, NAME, JaneDoe>>
    /\ Fields(lines[b + 2]) = <<Lvl1, BIRT>>
    /\ Len(Fields(lines[b + 3])) = 3 /\ SubSeq(Fields(lines[b + 3]), 1, 2) = <<Lvl2, DATE>>
    /\ Len(Fields(lines[b + 4])) = 3 /\ SubSeq(Fields(lines[b + 4]), 1, 2) = <<Lvl2, PLAC>>
    /\ Fields(lines[b + 5]) = <<Lvl1, DEAT>>
    /\ Len(Fields(lines[b + 6])) = 3 /\ SubSeq(Fields(lines[b + 6]), 1, 2) = <<Lvl2, DATE>>
    /\ Len(Fields(lines[b + 7])) = 3 /\ SubSeq(Fields(lines[b + 7]), 1, 2) = <<Lvl2, PLAC>>
    /\ b + 7 < Len(lines) => IsLevel0(lines[b + 8])

\* C1: an INDI record NAME Jane /Doe/, BIRT, DATE d1, PLAC p1, DEAT, DATE d2,
\* PLAC p2 ends with Birth Date d1, Birth Place p1, Death Date d2 and Death
\* Place p2, and its CSV row is I1,Jane Doe,,d1,p1,d2,p2.
C1_BirthDeathDisambiguation ==
    pc = "done" =>
      \A b \in 1..Len(lines) :
         IsEventRecord(b) =>
            LET r  == heap[individuals[1]]
                d1 == Fields(lines[b + 3])[3]
                p1 == Fields(lines[b + 4])[3]
                d2 == Fields(lines[b + 6])[3]
                p2 == Fields(lines[b + 7])[3]
            IN  /\ Get(r, "Birth Date", Empty) = d1
                /\ Get(r, "Birth Place", Empty) = p1
                /\ Get(r, "Death Date", Empty) = d2
                /\ Get(r, "Death Place", Empty) = p2
                /\ output[2] = Commas(<<PointerId(Fields(lines[b])[2]),
                                        <<"J", "a", "n", "e", " ", "D", "o", "e">>,
                                        Empty, d1, p1, d2, p2>>)

\* C2: for a text that declares no INDI record the CSV is exactly the header
\* row, and the header row is there whether or not individuals is empty.
C2_HeaderOnly ==
    pc = "done" =>
      /\ Len(output) >= 1
      /\ output[1] = HeaderText
      /\ IndiDecls = <<>> => Len(output) = 1

\* C3: after parsing, individuals holds exactly one record per level-0 line
\* whose third field is INDI, in the order of those lines, and the CSV data
\* rows are these records in the same order; FAM and unknown level-0 lines
\* contribute no row.
C3_OrderAndCount ==
    Parsed =>
      /\ Len(individuals) = Len(IndiDecls)
      /\ \A k \in 1..Len(individuals) :
            /\ heap[individuals[k]]["ID"] = PointerId(Fields(IndiDecls[k])[2])
            /\ heap[individuals[k]]["type"] = INDI
      /\ pc = "done" =>
            /\ Len(DataRows) = Len(IndiDecls)
            /\ \A k \in 1..Len(DataRows) :
                  DataRows[k] = WriteRow(CleanRecord(heap[individuals[k]]))

\* C3 witness: two individuals declared I2 then I1 with a family among them,
\* and the two data rows in that order.
C3_Witness ==
    /\ pc = "done"
    /\ Len(families) = 1
    /\ Len(individuals) = 2
    /\ heap[individuals[1]]["ID"] = <<"I", "2">>
    /\ heap[individuals[2]]["ID"] = <<"I", "1">>
    /\ Len(output) = 3

\* C4: a level-0 line of unknown or absent type opens no record; the lines
\* of its block change neither collection nor any record; and the records
\* parsed are those of the text without the block.
C4_UnknownTopDropped ==
    /\ [][(AtLine /\ IsUnknownTop(lines[i]))
            => (current_record' = NoRecord /\ heap' = heap)]_vars
    /\ [][(InUnknownBlock /\ ~IsLevel0(lines[i]))
            => UNCHANGED <<individuals, families, heap, current_record>>]_vars
    /\ [](Parsed =>
            \A j \in 1..Len(lines) :
               IsUnknownTop(lines[j]) =>
                  LET other == ParseLines(WithoutBlock(lines, j))
                  IN  /\ Records(other.heap, other.individuals)
                           = Records(heap, individuals)
                      /\ Records(other.heap, other.families)
                           = Records(heap, families))

\* C4 witness: an unknown block holding a NAME line stands between two
\* individuals, and neither of them got the name.
C4_Witness ==
    /\ pc = "done"
    /\ Len(lines) = 4
    /\ IsUnknownTop(lines[2])
    /\ Fields(lines[3]) = <<Lvl1, NAME, JaneDoe>>
    /\ Len(individuals) = 2
    /\ "Name" \notin DOMAIN heap[individuals[1]]
    /\ "Name" \notin DOMAIN heap[individuals[2]]

\* C5: every record opened by an INDI or FAM line is in no collection while
\* it is the open record, and from the next level-0 line or the end of the
\* input on it is exactly once in the collection of its type and not in the
\* other.
C5_FinalisedOnce ==
    pc # "start" =>
      /\ Len(heap) = DeclsBefore(IF pc = "loop" THEN i - 1 ELSE Len(lines))
      /\ \A a \in 1..Len(heap) :
            LET open == pc = "loop" /\ a = current_record IN
            /\ Occurrences(individuals, a)
                 = IF ~open /\ heap[a]["type"] = INDI THEN 1 ELSE 0
            /\ Occurrences(families, a)
                 = IF ~open /\ heap[a]["type"] = FAM THEN 1 ELSE 0

\* C5 witness: a family closed by the next level-0 line and an individual
\* closed by the end of the input.
C5_Witness ==
    /\ pc = "done"
    /\ Len(families) = 1
    /\ Len(individuals) = 1
    /\ current_record = individuals[1]
    /\ ~IsLevel0(lines[Len(lines)])

\* C6: no step changes a record that a collection holds, and no step removes
\* or reorders the elements of a collection.
C6_NoMutationAfterAppend ==
    [][/\ Len(individuals') >= Len(individuals)
       /\ Len(families') >= Len(families)
       /\ \A k \in 1..Len(individuals) :
             /\ individuals'[k] = individuals[k]
             /\ heap'[individuals[k]] = heap[individuals[k]]
       /\ \A k \in 1..Len(families) :
             /\ families'[k] = families[k]
             /\ heap'[families[k]] = heap[families[k]]]_vars

\* C6 witness: a record was appended and a later line set a field of the
\* record opened after it.
C6_Witness ==
    /\ pc = "loop"
    /\ Len(individuals) = 1
    /\ current_record \notin {NoRecord, individuals[1]}
    /\ "Name" \in DOMAIN heap[current_record]
    /\ "Name" \notin DOMAIN heap[individuals[1]]

\* the fields of one row of CSV text, read back as a CSV reader does:
\* a comma outside quotes ends a field, "" inside quotes is one quote
RECURSIVE ReadFrom(_, _, _, _)
ReadFrom(s, field, row, quoted) ==
    IF s = <<>> THEN Append(row, field)
    ELSE IF quoted
    THEN IF Head(s) = "\""
         THEN IF Len(s) >= 2 /\ s[2] = "\""
              THEN ReadFrom(Tail(Tail(s)), Append(field, "\""), row, TRUE)
              ELSE ReadFrom(Tail(s), field, row, FALSE)
         ELSE ReadFrom(Tail(s), Append(field, Head(s)), row, TRUE)
    ELSE IF Head(s) = "," THEN ReadFrom(Tail(s), <<>>, Append(row, field), FALSE)
    ELSE IF Head(s) = "\"" THEN ReadFrom(Tail(s), field, row, TRUE)
    ELSE ReadFrom(Tail(s), Append(field, Head(s)), row, FALSE)

ReadRow(s) == ReadFrom(s, <<>>, <<>>, FALSE)

\* the seven columns, in order
Columns == <<"ID", "Name", "Sex", "Birth Date", "Birth Place", "Death Date", "Death Place">>

\* s without its characters c
Without(s, c) == SelectSeq(s, LAMBDA x : x # c)

\* s from its first to its last character other than c
Trimmed(s, c) ==
    LET keep == {k \in 1..Len(s) : s[k] # c}
    IN  IF keep = {} THEN <<>>
        ELSE SubSeq(s, CHOOSE k \in keep : \A m \in keep : k <= m,
                       CHOOSE k \in keep : \A m \in keep : k >= m)

\* the INDI and FAM declarations among the lines the loop has passed: the
\* a-th of them opened the record at heap address a
DeclsPassed ==
    SelectSeq(SubSeq(lines, 1, IF pc = "loop" THEN i - 1 ELSE Len(lines)),
              LAMBDA l : Declares(l, INDI) \/ Declares(l, FAM))


\* the steps left, at most: what every step of the program decreases
StepsLeft ==
    CASE pc = "start"  -> Len(SplitLines(Strip(content))) + 4
      [] pc = "loop"   -> (Len(lines) + 1 - i) + 2
      [] pc = "parsed" -> 1
      [] OTHER         -> 0

\* a step of the program can be taken: the guard of one of the actions holds
CanStep ==
    \/ pc = "start"
    \/ pc = "loop" /\ i > Len(lines)
    \/ AtLine /\ Branch(State, lines[i]) \in {"0", "1", "2", "blank", "none"}
    \/ pc = "parsed"

\* C7: for every text, whatever fields its lines lack, parse never raises
\* and runs to its end (every state but the last has a step to take, and
\* every step brings the end nearer); a line of level 1 or 2 with no tag
\* changes nothing, and a NAME, DATE or PLAC line with no value stores the
\* empty string.
C7_NeverFails ==
    /\ [](pc # "error")
    /\ [](pc = "done" \/ CanStep)
    /\ [][StepsLeft' < StepsLeft]_vars
    /\ [][(AtLine /\ Branch(State, lines[i]) \in {"1", "2"}
              /\ Len(Fields(lines[i])) = 1)
           => (heap' = heap /\ i' = i + 1)]_vars
    /\ [][(AtLine /\ Branch(State, lines[i]) = "1"
              /\ Fields(lines[i]) = <<Lvl1, NAME>>)
           => heap'[current_record]["Name"] = Empty]_vars
    /\ [][(AtLine /\ Branch(State, lines[i]) = "2"
              /\ Fields(lines[i]) = <<Lvl2, DATE>>
              /\ "_BIRT_NEXT" \in DOMAIN heap[current_record])
           => heap'[current_record]["Birth Date"] = Empty]_vars
    /\ [][(AtLine /\ Branch(State, lines[i]) = "2"
              /\ Fields(lines[i]) = <<Lvl2, PLAC>>
              /\ "_BIRT_NEXT" \in DOMAIN heap[current_record])
           => heap'[current_record]["Birth Place"] = Empty]_vars

\* C7 witness: a parse that met a line holding only the level 1 inside an
\* open record came to its end, with the empty name of a NAME line that had
\* no value.
C7_Witness ==
    /\ pc = "done"
    /\ Len(individuals) = 1
    /\ \E j \in 2..Len(lines) : Fields(lines[j]) = <<Lvl1>>
    /\ \E j \in 2..Len(lines) : Fields(lines[j]) = <<Lvl1, NAME>>
    /\ Get(heap[individuals[1]], "Name", IndexError) = Empty

\* C8: every data row reads back as exactly seven columns, in the order ID,
\* Name, Sex, Birth Date, Birth Place, Death Date, Death Place; a column is
\* the attribute's value when the attribute is set and empty when it is not.
C8_MissingFieldsEmpty ==
    (pc = "done" /\ individuals # <<>>) =>
      /\ Len(output) = Len(individuals) + 1
      /\ ReadRow(output[1]) = [c \in 1..7 |-> Chars(Columns[c])]
      /\ \A k \in 1..Len(individuals) :
            LET row == ReadRow(output[k + 1])
                r   == heap[individuals[k]]
            IN  /\ Len(row) = 7
                /\ \A c \in 1..7 :
                      row[c] = IF Columns[c] \in DOMAIN r THEN r[Columns[c]] ELSE Empty

\* C8 witness: an individual with only NAME set, whose row has the id, the
\* name and five empty columns.
C8_Witness ==
    /\ pc = "done"
    /\ Len(individuals) = 1
    /\ DOMAIN heap[individuals[1]] = {"ID", "type", "Name"}
    /\ output[2] = <<"I", "1", "2", "3", ",", "J", "o", "h", "n", " ",
                     "S", "m", "i", "t", "h", ",", ",", ",", ",", ",">>

\* C9: a level-1 NAME line sets the name of the open record to the line's
\* value without its `/` characters, the other characters kept in order.
C9_NameSlashesRemoved ==
    [][(AtLine /\ Branch(State, lines[i]) = "1"
           /\ Len(Fields(lines[i])) >= 2 /\ Fields(lines[i])[2] = NAME)
        => /\ "Name" \in DOMAIN heap'[current_record]
           /\ heap'[current_record]["Name"]
                = Without(IF Len(Fields(lines[i])) >= 3
                          THEN Fields(lines[i])[3] ELSE Empty, "/")]_vars

\* C9 witness: NAME John /Smith/ gave the name John Smith.
C9_Witness ==
    /\ pc = "loop"
    /\ i > 1
    /\ Fields(lines[i - 1]) = <<Lvl1, NAME, JohnSmith>>
    /\ heap[current_record]["Name"]
         = <<"J", "o", "h", "n", " ", "S", "m", "i", "t", "h">>

\* C10 as stated: a record opened by a level-0 line whose second field is
\* @X@ has id X.
C10_IdIsX ==
    \A a \in 1..Len(DeclsPassed) :
       LET f == Fields(DeclsPassed[a])[2] IN
       (Len(f) >= 2 /\ f[1] = "@" /\ f[Len(f)] = "@")
          => heap[a]["ID"] = SubSeq(f, 2, Len(f) - 1)

\* C10 as amended: the id of a record is the second field of its level-0
\* line without its leading and trailing @ characters, however many there
\* are (so @X@ gives X when X neither begins nor ends with @); the ID column
\* of its CSV row reads back as that id; and no later step changes the id.
C10_PointerStripped ==
    /\ [](\A a \in 1..Len(DeclsPassed) :
             heap[a]["ID"] = Trimmed(Fields(DeclsPassed[a])[2], "@"))
    /\ [](pc = "done" =>
             \A k \in 1..Len(individuals) :
                ReadRow(output[k + 1])[1] = heap[individuals[k]]["ID"])
    /\ [][\A a \in 1..Len(heap) : heap'[a]["ID"] = heap[a]["ID"]]_vars

\* C10 witness: the line 0 @I123@ INDI gave the id I123 and the ID column
\* I123, after later lines of the record were read.
C10_Witness ==
    /\ pc = "done"
    /\ Len(lines) >= 3
    /\ Fields(lines[1])[2] = PtrI123
    /\ heap[individuals[1]]["ID"] = <<"I", "1", "2", "3">>
    /\ ReadRow(output[2])[1] = <<"I", "1", "2", "3">>

\* the references a list holds
Refs(list) == {list[k] : k \in 1..Len(list)}

\* C11: a call of convert_gedcom_to_csv on the text that the call before it
\* converted returns the same CSV; it starts from empty lists, holds none of
\* the records of the call before and changes none of them.
C11_Determinism ==
    /\ []((calls > 1 /\ pc = "done") => output = previous.output)
    /\ []((calls > 1 /\ pc = "start") => (individuals = <<>> /\ families = <<>>))
    /\ [](calls > 1 =>
            (Refs(individuals) \cup Refs(families))
               \cap (Refs(previous.individuals) \cup Refs(previous.families)) = {})
    /\ [][calls' = calls =>
            \A a \in Refs(previous.individuals) \cup Refs(previous.families) :
               heap'[a] = heap[a]]_vars

\* C11 witness: the second call returned, on a text with two individuals
\* and a family, what the first call returned.
C11_Witness ==
    /\ calls = 2
    /\ pc = "done"
    /\ Len(previous.individuals) = 2
    /\ Len(previous.families) = 1
    /\ Len(output) = 3
    /\ output = previous.output

\* the line has the level lvl and the tag tag
IsTag(raw, lvl, tag) ==
    /\ Len(Fields(raw)) >= 2
    /\ Fields(raw)[1] = lvl
    /\ Fields(raw)[2] = tag

\* the value of a line: its third field, '' when it has none
LineValue(raw) == ValueOf(Fields(raw))

\* the lines before line n that no level-0 line separates from it: when line
\* n belongs to the open record, the lines of that record's body before it
Body(n) == {k \in 1..(n - 1) : \A j \in k..(n - 1) : ~IsLevel0(lines[j])}

\* the pending event flags a dict holds
PendingFlags(rec) == {k \in {"_BIRT_NEXT", "_DEAT_NEXT"} : Get(rec, k, FALSE)}

\* the loop has just processed line n, and a record is open
JustRead(n) == pc = "loop" /\ i = n + 1 /\ n >= 1 /\ current_record # NoRecord

\* C12: once a record has had a level-1 BIRT and after it a level-1 DEAT,
\* with no level-2 DATE in the record so far and no BIRT after the DEAT, the
\* next level-2 DATE of the record is stored as Death Date and the record
\* has no Birth Date.
C12_PendingOverwrite ==
    \A n \in 1..Len(lines) :
       (JustRead(n) /\ IsTag(lines[n], Lvl2, DATE)) =>
          \A b, d \in Body(n) :
             ( /\ b < d
               /\ IsTag(lines[b], Lvl1, BIRT)
               /\ IsTag(lines[d], Lvl1, DEAT)
               /\ \A k \in Body(n) : k > d => ~IsTag(lines[k], Lvl1, BIRT)
               /\ \A k \in Body(n) : ~IsTag(lines[k], Lvl2, DATE) )
             => /\ Get(heap[current_record], "Death Date", Empty) = LineValue(lines[n])
                /\ "Birth Date" \notin DOMAIN heap[current_record]

\* C13: the open record never holds the birth flag and the death flag at
\* the same time.
C13_AtMostOnePending ==
    current_record # NoRecord =>
       Cardinality(PendingFlags(heap[current_record])) <= 1

\* C14: no record in individuals or families holds a pending event flag.
C14_PendingTransient ==
    \A a \in Refs(individuals) \cup Refs(families) : PendingFlags(heap[a]) = {}

\* the open record awaits the detail of the event: birth when the birth
\* flag is set, death when the death flag is set
AwaitsBirth == "_BIRT_NEXT" \in PendingFlags(heap[current_record])
AwaitsDeath == "_DEAT_NEXT" \in PendingFlags(heap[current_record])

\* line n follows a level-2 DATE of the same record, with no BIRT and no
\* DEAT line between the two
FollowsDate(n) ==
    \E t \in Body(n) :
       /\ IsTag(lines[t], Lvl2, DATE)
       /\ \A k \in Body(n) : k > t =>
             (~IsTag(lines[k], Lvl1, BIRT) /\ ~IsTag(lines[k], Lvl1, DEAT))

\* C15: a level-2 PLAC met while birth (death) is pending sets Birth Place
\* (Death Place) and nothing else, the flag included; a level-2 DATE met
\* while birth (death) is pending sets Birth Date (Death Date) and removes
\* that flag; a level-2 PLAC or DATE that follows a level-2 DATE with no
\* BIRT or DEAT in between leaves the record as it was.
C15_AsymmetricClearing ==
    [][Level2Line =>
         LET rec   == heap[current_record]
             after == heap'[current_record]
             tag   == TagOf(Fields(lines[i]))
             value == LineValue(lines[i])
         IN  /\ (tag = PLAC /\ AwaitsBirth) => after = Put(rec, "Birth Place", value)
             /\ (tag = PLAC /\ AwaitsDeath) => after = Put(rec, "Death Place", value)
             /\ (tag = DATE /\ AwaitsBirth) =>
                   after = Pop(Put(rec, "Birth Date", value), "_BIRT_NEXT")
             /\ (tag = DATE /\ AwaitsDeath) =>
                   after = Pop(Put(rec, "Death Date", value), "_DEAT_NEXT")
             /\ (tag \in {PLAC, DATE} /\ FollowsDate(i)) => after = rec
    ]_vars

\* both BIRT and DEAT were met in the open record before line n, and no
\* level-2 DATE since the earlier of the two
BothPendingAt(n) ==
    \E b, d \in Body(n) :
       /\ IsTag(lines[b], Lvl1, BIRT)
       /\ IsTag(lines[d], Lvl1, DEAT)
       /\ \A k \in Body(n) : (k > b \/ k > d) => ~IsTag(lines[k], Lvl2, DATE)

\* C19: BIRT sets the birth flag and DEAT the death flag, each leaving the
\* other flag as it was. When both BIRT and DEAT were met with no DATE since,
\* both flags are set; a DATE then sets Birth Date and removes the birth flag
\* only, a PLAC sets Birth Place and removes nothing, and a second DATE right
\* after the first sets Death Date.
C19_BirthPriority ==
    /\ [][Level1Line =>
            LET rec   == heap[current_record]
                after == heap'[current_record]
                tag   == TagOf(Fields(lines[i]))
            IN  /\ tag = BIRT => after = Put(rec, "_BIRT_NEXT", TRUE)
                /\ tag = DEAT => after = Put(rec, "_DEAT_NEXT", TRUE)
       ]_vars
    /\ [][(Level2Line /\ BothPendingAt(i)) =>
            LET rec   == heap[current_record]
                after == heap'[current_record]
                tag   == TagOf(Fields(lines[i]))
                value == LineValue(lines[i])
            IN  /\ PendingFlags(rec) = {"_BIRT_NEXT", "_DEAT_NEXT"}
                /\ tag = DATE =>
                      /\ after = Pop(Put(rec, "Birth Date", value), "_BIRT_NEXT")
                      /\ PendingFlags(after) = {"_DEAT_NEXT"}
                /\ tag = PLAC =>
                      /\ after = Put(rec, "Birth Place", value)
                      /\ PendingFlags(after) = {"_BIRT_NEXT", "_DEAT_NEXT"}
       ]_vars
    /\ [](\A n \in 2..Len(lines) :
            ( /\ JustRead(n)
              /\ IsTag(lines[n - 1], Lvl2, DATE)
              /\ IsTag(lines[n], Lvl2, DATE)
              /\ BothPendingAt(n - 1) )
            => /\ Get(heap[current_record], "Birth Date", Empty) = LineValue(lines[n - 1])
               /\ Get(heap[current_record], "Death Date", Empty) = LineValue(lines[n])
               /\ PendingFlags(heap[current_record]) = {})

\* C19 witness: DEAT, BIRT, then two DATE lines with different dates have
\* just been read; the first date is the Birth Date, the second the Death Date.
C19_Witness ==
    /\ JustRead(5)
    /\ IsTag(lines[2], Lvl1, DEAT)
    /\ IsTag(lines[3], Lvl1, BIRT)
    /\ IsTag(lines[4], Lvl2, DATE)
    /\ IsTag(lines[5], Lvl2, DATE)
    /\ Get(heap[current_record], "Birth Date", Empty) = Feb1980
    /\ Get(heap[current_record], "Death Date", Empty) = Jan1900

\* the number a string of decimal digits stands for
DigitChars == <<"0", "1", "2", "3", "4", "5", "6", "7", "8", "9">>
IsNumber(s) == s # <<>> /\ \A k \in 1..Len(s) : \E d \in 1..10 : DigitChars[d] = s[k]
RECURSIVE Number(_)
Number(s) ==
    IF s = <<>> THEN 0
    ELSE 10 * Number(SubSeq(s, 1, Len(s) - 1))
         + (CHOOSE d \in 0..9 : DigitChars[d + 1] = s[Len(s)])

\* the level of the line is a number greater than 2
IsDeeper(raw) ==
    /\ Rstrip(raw) # Empty
    /\ IsNumber(LevelOf(Fields(raw)))
    /\ Number(LevelOf(Fields(raw))) > 2

\* a level-1 line whose tag is none of the seven the parser knows, a level-2
\* line whose tag is not DATE or PLAC, a line of level greater than 2
IsIgnored(raw) ==
    \/ /\ Rstrip(raw) # Empty
       /\ LevelOf(Fields(raw)) = Lvl1
       /\ TagOf(Fields(raw)) \notin {NAME, SEX, BIRT, DEAT, HUSB, WIFE, CHIL}
    \/ /\ Rstrip(raw) # Empty
       /\ LevelOf(Fields(raw)) = Lvl2
       /\ TagOf(Fields(raw)) \notin {DATE, PLAC}
    \/ IsDeeper(raw)

\* C16: the step of the loop over an ignored line leaves every dict (the
\* open record with its fields and flags among them), the open record and its
\* type, and both lists as they were.
C16_IgnoredLinesChangeNothing ==
    [][(AtLine /\ IsIgnored(lines[i])) =>
          /\ i' = i + 1
          /\ heap' = heap
          /\ current_record' = current_record
          /\ current_type' = current_type
          /\ individuals' = individuals
          /\ families' = families
    ]_vars

\* C16 witness: the open record awaits a birth date, and the three kinds of
\* ignored line have just been read after the BIRT line.
C16_Witness ==
    /\ JustRead(5)
    /\ IsTag(lines[2], Lvl1, BIRT)
    /\ \E a, b, c \in 3..5 :
          /\ IsTag(lines[a], Lvl1, BURI)
          /\ IsTag(lines[b], Lvl2, ADDR)
          /\ IsDeeper(lines[c]) /\ TagOf(Fields(lines[c])) = DATE
    /\ PendingFlags(heap[current_record]) = {"_BIRT_NEXT"}
    /\ DOMAIN heap[current_record] = {"ID", "type", "_BIRT_NEXT"}

\* a line that may come between the event line and its DATE: a level-1 line
\* whose tag is not BIRT or DEAT, or a line of level greater than 2
IsIntervening(raw) ==
    \/ /\ Rstrip(raw) # Empty
       /\ LevelOf(Fields(raw)) = Lvl1
       /\ TagOf(Fields(raw)) \notin {BIRT, DEAT}
    \/ IsDeeper(raw)

\* line n comes after the event line e of the open record and after at least
\* one intervening line, and only intervening lines separate the two
AfterIntervening(e, n) ==
    /\ e \in Body(n)
    /\ e + 1 < n
    /\ \A k \in (e + 1)..(n - 1) : IsIntervening(lines[k])

\* C18: a dict loses a pending flag only in the step of a level-2 DATE line
\* of the open record, which stores the date under that event; an intervening
\* line leaves the flags of the open record as they were; and a level-2 DATE
\* that comes after BIRT (DEAT) and intervening lines only is stored as Birth
\* Date (as Death Date, or as Birth Date when a BIRT is pending as well).
C18_FlagSurvives ==
    /\ [][\A a \in 1..Len(heap) :
             \A f \in PendingFlags(heap[a]) \ PendingFlags(heap'[a]) :
                /\ Level2Line
                /\ a = current_record
                /\ TagOf(Fields(lines[i])) = DATE
                /\ f = "_BIRT_NEXT" =>
                      Get(heap'[a], "Birth Date", Empty) = LineValue(lines[i])
                /\ f = "_DEAT_NEXT" =>
                      Get(heap'[a], "Death Date", Empty) = LineValue(lines[i])
       ]_vars
    /\ [][(AtLine /\ current_record # NoRecord /\ IsIntervening(lines[i])) =>
             /\ current_record' = current_record
             /\ PendingFlags(heap'[current_record]) = PendingFlags(heap[current_record])
       ]_vars
    /\ [](\A n \in 1..Len(lines) :
            (JustRead(n) /\ IsTag(lines[n], Lvl2, DATE)) =>
               \A e \in Body(n) :
                  AfterIntervening(e, n) =>
                     LET rec == heap[current_record]
                         value == LineValue(lines[n])
                     IN  /\ IsTag(lines[e], Lvl1, BIRT) =>
                               Get(rec, "Birth Date", Empty) = value
                         /\ IsTag(lines[e], Lvl1, DEAT) =>
                               \/ Get(rec, "Death Date", Empty) = value
                               \/ Get(rec, "Birth Date", Empty) = value
                         /\ ( /\ IsTag(lines[e], Lvl1, DEAT)
                              /\ \A k \in Body(n) : ~IsTag(lines[k], Lvl1, BIRT) )
                            => Get(rec, "Death Date", Empty) = value)

\* C18 witness: DEAT, then a level-1 line of another tag and a line of
\* level 3 or more in either order, then a level-2 DATE, which has just been
\* stored as the Death Date.
C18_Witness ==
    /\ JustRead(5)
    /\ IsTag(lines[2], Lvl1, DEAT)
    /\ \E a, b \in 3..4 :
          /\ LevelOf(Fields(lines[a])) = Lvl1
          /\ IsDeeper(lines[b])
    /\ AfterIntervening(2, 5)
    /\ IsTag(lines[5], Lvl2, DATE)
    /\ Get(heap[current_record], "Death Date", Empty) = Jan1900
    /\ PendingFlags(heap[current_record]) = {}

\* the ids of the records of a list, in order
IdsOf(list) == [k \in 1..Len(list) |-> heap[list[k]]["ID"]]

\* no value is twice in the sequence
NoDuplicates(seq) == \A j, k \in 1..Len(seq) : j # k => seq[j] # seq[k]

\* the ids the declarations of a type give, in the order of the text: the
\* second field of each, without its leading and trailing @
DeclaredIds(type) ==
    LET decls == SelectSeq(lines, LAMBDA l : Declares(l, type))
    IN  [k \in 1..Len(decls) |-> StripChars(Fields(decls[k])[2], "@")]

\* C17 (as stated): after parse() no two records of individuals have the
\* same id, and no two records of families have the same id.
C17_IdsUnique ==
    Parsed => (NoDuplicates(IdsOf(individuals)) /\ NoDuplicates(IdsOf(families)))

\* C17 (amended): after parse() the ids of individuals (of families) are the
\* ids of the INDI (FAM) declarations of the text, one for one and in order,
\* a declaration that repeats an id included; so the ids of a collection are
\* distinct exactly when the declarations of that type give distinct ids.
C17_IdsAsDeclared ==
    Parsed =>
       /\ IdsOf(individuals) = DeclaredIds(INDI)
       /\ IdsOf(families) = DeclaredIds(FAM)
       /\ NoDuplicates(IdsOf(individuals)) <=> NoDuplicates(DeclaredIds(INDI))
       /\ NoDuplicates(IdsOf(families)) <=> NoDuplicates(DeclaredIds(FAM))

\* C17 witness: the text declares I1, I2 and I1 again; individuals holds
\* three records, the first and the third with the same id.
C17_Witness ==
    /\ Parsed
    /\ Len(individuals) = 3
    /\ individuals[1] # individuals[3]
    /\ IdsOf(individuals)[1] = IdsOf(individuals)[3]
    /\ IdsOf(individuals)[1] # IdsOf(individuals)[2]
    /\ DeclaredIds(INDI) = IdsOf(individuals)

\* n copies of a sequence, one after the other
RECURSIVE Repeat(_, _)
Repeat(seq, n) == IF n = 0 THEN <<>> ELSE seq \o Repeat(seq, n - 1)

\* the data rows to_csv gives for the records of one parse of the text
RowsOfOneParse ==
    LET one  == ParseLines(lines)
        rows == CsvRows(one.heap, one.individuals)
    IN  IF rows = <<>> THEN <<>> ELSE Tail(rows)

\* C20: after the n-th parse() on one parser, individuals and families hold
\* n copies, one after the other and each of its own dicts, of the records
\* of one parse of the text; to_csv then gives the data rows of one parse n
\* times over, n rows for each INDI declaration, and so one row for each
\* INDI declaration only when parse() was called once.
C20_ParseAccumulates ==
    /\ Parsed =>
          LET one == ParseLines(lines)
          IN  /\ Records(heap, individuals)
                    = Repeat(Records(one.heap, one.individuals), parses)
              /\ Records(heap, families)
                    = Repeat(Records(one.heap, one.families), parses)
              /\ NoDuplicates(individuals \o families)
    /\ pc = "done" =>
          /\ DataRows = Repeat(RowsOfOneParse, parses)
          /\ Len(DataRows) = parses * Len(IndiDecls)
          /\ (Len(DataRows) = Len(IndiDecls)) <=> (parses = 1 \/ IndiDecls = <<>>)

\* C20 witness: a text with two INDI declarations and a FAM declaration was
\* parsed three times by one parser, and to_csv gave six data rows, the
\* rows of the two individuals three times.
C20_Witness ==
    /\ pc = "done"
    /\ parses = 3
    /\ Len(IndiDecls) = 2
    /\ Len(families) = 3
    /\ Len(DataRows) = 6
    /\ DataRows[1] # DataRows[2]
    /\ DataRows[1] = DataRows[3] /\ DataRows[3] = DataRows[5]

====
